---------------------------- MODULE Spec2Model ----------------------------
(***************************************************************************)
(* Fitness studio booking API: the create-booking workflow of              *)
(* app/api/routes.py over the store of app/models.py and app/crud.py.      *)
(*                                                                         *)
(* The store is one relational database shared by every request.  Each     *)
(* request owns a session (app/database.py get_db); every query a request  *)
(* issues is one atomic step on the store, and nothing in the code holds   *)
(* a lock or a transaction across two queries.  The handler is a coroutine *)
(* without await, so one worker process runs its body without              *)
(* interruption (SeqSpec); requests served by different worker processes   *)
(* over the same database interleave between any two queries (Spec).       *)
(* client_name takes no part in any decision and is left out of the rows.  *)
(***************************************************************************)
EXTENDS Integers, Sequences, FiniteSets, TLC

(***************************************************************************)
(* Bounds of the model.                                                    *)
(***************************************************************************)
NumReqs == 2        \* create-booking requests issued in one behaviour
MaxTime == 2        \* the clock runs over 0 .. MaxTime
MaxSlots == 2       \* total_slots of the larger class

Reqs == 1 .. NumReqs
Instants == 0 .. MaxTime

(***************************************************************************)
(* Class ids.  ClassIds are the rows of fitness_classes; MissingId is an   *)
(* id no row has (tests/test_api.py books class_id 9999).                  *)
(***************************************************************************)
ClassIds == {1, 2}
MissingId == 9999
RequestClassIds == ClassIds \cup {MissingId}

(***************************************************************************)
(* Email addresses are sequences of characters, so that lowercasing is an  *)
(* operation on them and not the identity.                                 *)
(***************************************************************************)
EmailInputs ==
    { <<"a", "@", "x">>, <<"A", "@", "x">>, <<"b", "@", "x">> }

\* str.lower() on one character
LowerChar(c) ==
    CASE c = "A" -> "a"
      [] c = "B" -> "b"
      [] OTHER -> c

\* str.lower()
Lower(s) == [i \in DOMAIN s |-> LowerChar(s[i])]

\* str.strip(): leading and trailing blanks removed
RECURSIVE LStrip(_)
LStrip(s) == IF s # <<>> /\ Head(s) = " " THEN LStrip(Tail(s)) ELSE s

RECURSIVE RStrip(_)
RStrip(s) ==
    IF s # <<>> /\ s[Len(s)] = " " THEN RStrip(SubSeq(s, 1, Len(s) - 1)) ELSE s

Strip(s) == RStrip(LStrip(s))

VARIABLES
    now,            \* datetime.utcnow(): the current instant
    classes,        \* table fitness_classes: id -> [datetime_utc, total_slots]
    bookings,       \* table bookings: set of rows [id, class_id, client_email, booked_at]
    pc,             \* position of each request in create_booking
    booking_data,   \* the body each request was sent with: [class_id, client_email]
    fitness_class,  \* the class row each request loaded in step 1 (its id), or NoClass
    new_booking,    \* id of the row each request inserted, or NoBooking
    response,       \* the response of each finished request
    reply           \* the response of the read or conversion being served, or NoReply

vars == <<now, classes, bookings, pc, booking_data, fitness_class, new_booking, response,
          reply>>

\* "no row": what a query's .first() returns when nothing matches (None)
NoClass == [id |-> 0, datetime_utc |-> 0, total_slots |-> 0]
NoBooking == 0
NoData == [class_id |-> 0, client_email |-> <<>>]
NoResponse == [status |-> 0, error |-> "", class_id |-> 0, client_email |-> <<>>,
               available_slots |-> 0]
\* no read is being served
NoReply == [op |-> "none", status |-> 0, total |-> 0, items |-> <<>>,
            skip |-> 0, limit |-> 0,
            email_given |-> FALSE, email |-> <<>>, email_normalized |-> <<>>,
            current_time_utc |-> 0]

(***************************************************************************)
(* The store's queries (app/crud.py, app/models.py).                       *)
(***************************************************************************)

\* mutant of get_class_by_id: the filter on the id is lost, .first() returns
\* the first row of the table
get_class_by_id_unfiltered(class_id) ==
    [id |-> 1,
     datetime_utc |-> classes[1].datetime_utc,
     total_slots |-> classes[1].total_slots]

\* crud.get_class_by_id: the row with that id, or None
get_class_by_id(class_id) ==
    IF class_id \in DOMAIN classes
        THEN [id |-> class_id,
              datetime_utc |-> classes[class_id].datetime_utc,
              total_slots |-> classes[class_id].total_slots]
        ELSE NoClass

\* FitnessClass.bookings: the rows of bookings whose class_id is this class
class_bookings(class_id) == {b \in bookings : b.class_id = class_id}

\* mutant of available_slots: the bookings of every class are counted
available_slots_all_bookings(fc) == fc.total_slots - Cardinality(bookings)

\* FitnessClass.available_slots, the relationship loaded from the store now
available_slots(fc) == fc.total_slots - Cardinality(class_bookings(fc.id))

\* mutant of check_existing_booking: the class filter compares the wrong column
check_existing_booking_wrong_column(class_id, email) ==
    \E b \in bookings : b.id = class_id /\ b.client_email = email

\* crud.check_existing_booking
check_existing_booking(class_id, email) ==
    \E b \in bookings : b.class_id = class_id /\ b.client_email = email

\* the id the store assigns to a new row of bookings (integer primary key)
next_booking_id ==
    IF bookings = {} THEN 1
    ELSE 1 + CHOOSE m \in {b.id : b \in bookings} : \A b \in bookings : b.id <= m

\* crud.get_bookings_by_email, the rows it selects
get_bookings_by_email(email) == {b \in bookings : b.client_email = email}

\* dependencies.validate_email_query: the value it hands to the route
validate_email_query(email) == Lower(Strip(email))

\* dependencies.validate_email_query raises for an empty or blank email
EmailQueryRejected(email) == Len(Strip(email)) = 0

\* routes.get_bookings: the response to GET /bookings?email=... in this state
get_bookings(email) ==
    IF EmailQueryRejected(email)
        THEN [status |-> 400, total |-> 0, bookings |-> {}]
        ELSE LET email_normalized == Lower(validate_email_query(email))
                 rows == get_bookings_by_email(email_normalized)
             IN [status |-> 200, total |-> Cardinality(rows), bookings |-> rows]

(***************************************************************************)
(* Initial state: the clock at 0, a catalogue of classes created by        *)
(* seeding, no bookings, no request issued.  As in the tests' fixture one  *)
(* class has a single slot and the other has many: class 1 is scheduled    *)
(* at instant 1 with one slot, class 2 at instant 2 with MaxSlots slots.   *)
(***************************************************************************)
Catalogue ==
    [c \in ClassIds |->
        [datetime_utc |-> c,
         total_slots |-> IF c = 1 THEN 1 ELSE MaxSlots]]

Init ==
    /\ now = 0
    /\ classes = Catalogue
    /\ bookings = {}
    /\ pc = [r \in Reqs |-> "idle"]
    /\ booking_data = [r \in Reqs |-> NoData]
    /\ fitness_class = [r \in Reqs |-> NoClass]
    /\ new_booking = [r \in Reqs |-> NoBooking]
    /\ response = [r \in Reqs |-> NoResponse]
    /\ reply = NoReply

(***************************************************************************)
(* create_booking (routes.py), one action per query of the handler.        *)
(***************************************************************************)

\* raise HTTPException(...): the request ends with that response; the
\* session is closed (database.py get_db) and nothing was written
Fail(r, resp) ==
    /\ pc' = [pc EXCEPT ![r] = "done"]
    /\ response' = [response EXCEPT ![r] = resp]
    /\ fitness_class' = [fitness_class EXCEPT ![r] = NoClass]
    /\ UNCHANGED <<now, classes, bookings, new_booking>>

\* the request arrives with its body; Step 1: validate class exists
ResolveClass(r) ==
    /\ pc[r] = "idle"
    /\ UNCHANGED reply
    /\ \A q \in Reqs : q < r => pc[q] # "idle"
    /\ \E cid \in RequestClassIds, email \in EmailInputs :
        LET fc == get_class_by_id(cid) IN
        /\ booking_data' = [booking_data EXCEPT
                                ![r] = [class_id |-> cid, client_email |-> email]]
        /\ IF fc = NoClass
              THEN Fail(r, [NoResponse EXCEPT !.status = 404,
                                              !.error = "not found",
                                              !.class_id = cid])
              ELSE /\ fitness_class' = [fitness_class EXCEPT ![r] = fc]
                   /\ pc' = [pc EXCEPT ![r] = "check_upcoming"]
                   /\ UNCHANGED <<now, classes, bookings, new_booking, response>>

\* Step 2: check if class is upcoming (not in the past)
CheckUpcoming(r) ==
    /\ pc[r] = "check_upcoming"
    /\ UNCHANGED reply
    /\ UNCHANGED booking_data
    /\ IF fitness_class[r].datetime_utc < now
          THEN Fail(r, [NoResponse EXCEPT !.status = 400,
                                          !.error = "already started or ended"])
          ELSE /\ pc' = [pc EXCEPT ![r] = "check_slots"]
               /\ UNCHANGED <<now, classes, bookings, fitness_class, new_booking,
                              response>>

\* mutant of CheckSlots: the duplicate gate is evaluated before the capacity gate
CheckSlots_DuplicateFirst(r) ==
    /\ pc[r] = "check_slots"
    /\ UNCHANGED reply
    /\ UNCHANGED booking_data
    /\ IF check_existing_booking(booking_data[r].class_id,
                                 Lower(booking_data[r].client_email))
          THEN Fail(r, [NoResponse EXCEPT !.status = 409,
                                          !.error = "already booked",
                                          !.class_id = fitness_class[r].id,
                                          !.client_email =
                                               Lower(booking_data[r].client_email)])
          ELSE IF available_slots(fitness_class[r]) <= 0
                  THEN Fail(r, [NoResponse EXCEPT !.status = 409,
                                                  !.error = "fully booked",
                                                  !.class_id = fitness_class[r].id])
                  ELSE /\ pc' = [pc EXCEPT ![r] = "check_duplicate"]
                       /\ UNCHANGED <<now, classes, bookings, fitness_class,
                                      new_booking, response>>

\* Step 3: check available slots
CheckSlots(r) ==
    /\ pc[r] = "check_slots"
    /\ UNCHANGED reply
    /\ UNCHANGED booking_data
    /\ IF available_slots(fitness_class[r]) <= 0
          THEN Fail(r, [NoResponse EXCEPT !.status = 409,
                                          !.error = "fully booked",
                                          !.class_id = fitness_class[r].id])
          ELSE /\ pc' = [pc EXCEPT ![r] = "check_duplicate"]
               /\ UNCHANGED <<now, classes, bookings, fitness_class, new_booking,
                              response>>

\* mutant of CheckDuplicate: the booking is added and committed before the
\* duplicate check, and the 409 leaves the row behind
CheckDuplicate_WritesFirst(r) ==
    LET email_normalized == Lower(booking_data[r].client_email) IN
    /\ pc[r] = "check_duplicate"
    /\ UNCHANGED reply
    /\ UNCHANGED booking_data
    /\ IF check_existing_booking(booking_data[r].class_id, email_normalized)
          THEN /\ pc' = [pc EXCEPT ![r] = "done"]
               /\ response' = [response EXCEPT ![r] =
                        [NoResponse EXCEPT !.status = 409,
                                           !.error = "already booked",
                                           !.class_id = fitness_class[r].id,
                                           !.client_email = email_normalized]]
               /\ fitness_class' = [fitness_class EXCEPT ![r] = NoClass]
               /\ bookings' = bookings \cup
                        {[id |-> next_booking_id,
                          class_id |-> booking_data[r].class_id,
                          client_email |-> email_normalized,
                          booked_at |-> now]}
               /\ UNCHANGED <<now, classes, new_booking>>
          ELSE /\ pc' = [pc EXCEPT ![r] = "insert"]
               /\ UNCHANGED <<now, classes, bookings, fitness_class, new_booking,
                              response>>

\* mutant of CheckDuplicate: a duplicate sends the request back to the
\* capacity check instead of ending it
CheckDuplicate_Retries(r) ==
    LET email_normalized == Lower(booking_data[r].client_email) IN
    /\ pc[r] = "check_duplicate"
    /\ UNCHANGED reply
    /\ UNCHANGED booking_data
    /\ pc' = [pc EXCEPT ![r] =
                IF check_existing_booking(booking_data[r].class_id, email_normalized)
                   THEN "check_slots" ELSE "insert"]
    /\ UNCHANGED <<now, classes, bookings, fitness_class, new_booking, response>>

\* Step 4: check for duplicate booking
CheckDuplicate(r) ==
    LET email_normalized == Lower(booking_data[r].client_email) IN
    /\ pc[r] = "check_duplicate"
    /\ UNCHANGED reply
    /\ UNCHANGED booking_data
    /\ IF check_existing_booking(booking_data[r].class_id, email_normalized)
          THEN Fail(r, [NoResponse EXCEPT !.status = 409,
                                          !.error = "already booked",
                                          !.class_id = fitness_class[r].id,
                                          !.client_email = email_normalized])
          ELSE /\ pc' = [pc EXCEPT ![r] = "insert"]
               /\ UNCHANGED <<now, classes, bookings, fitness_class, new_booking,
                              response>>

\* mutant of InsertBooking: the row is built from the email as it was sent
InsertBooking_RawEmail(r) ==
    LET row == [id |-> next_booking_id,
                class_id |-> booking_data[r].class_id,
                client_email |-> booking_data[r].client_email,
                booked_at |-> now]
    IN
    /\ pc[r] = "insert"
    /\ UNCHANGED reply
    /\ bookings' = bookings \cup {row}
    /\ new_booking' = [new_booking EXCEPT ![r] = row.id]
    /\ pc' = [pc EXCEPT ![r] = "respond"]
    /\ UNCHANGED <<now, classes, booking_data, fitness_class, response>>

\* mutant of InsertBooking: the insert replaces the rows the client already
\* has
InsertBooking_Upsert(r) ==
    LET email_normalized == Lower(booking_data[r].client_email)
        row == [id |-> next_booking_id,
                class_id |-> booking_data[r].class_id,
                client_email |-> email_normalized,
                booked_at |-> now]
    IN
    /\ pc[r] = "insert"
    /\ UNCHANGED reply
    /\ bookings' = {b \in bookings : b.client_email # email_normalized} \cup {row}
    /\ new_booking' = [new_booking EXCEPT ![r] = row.id]
    /\ pc' = [pc EXCEPT ![r] = "respond"]
    /\ UNCHANGED <<now, classes, booking_data, fitness_class, response>>

\* Step 5: crud.create_booking, db.add and db.commit.  The body's email is
\* replaced by the lowercased one before the row is built from it, and
\* booked_at defaults to utcnow() at the insert.
InsertBooking(r) ==
    LET email_normalized == Lower(booking_data[r].client_email)
        row == [id |-> next_booking_id,
                class_id |-> booking_data[r].class_id,
                client_email |-> email_normalized,
                booked_at |-> now]
    IN
    /\ pc[r] = "insert"
    /\ UNCHANGED reply
    /\ bookings' = bookings \cup {row}
    /\ new_booking' = [new_booking EXCEPT ![r] = row.id]
    /\ pc' = [pc EXCEPT ![r] = "respond"]
    /\ UNCHANGED <<now, classes, booking_data, fitness_class, response>>

\* mutant of Respond: the row was not committed; the 201 is answered and
\* closing the session rolls the insert back
Respond_RollsBack(r) ==
    LET row == CHOOSE b \in bookings : b.id = new_booking[r] IN
    /\ pc[r] = "respond"
    /\ UNCHANGED reply
    /\ pc' = [pc EXCEPT ![r] = "done"]
    /\ response' = [response EXCEPT ![r] =
            [NoResponse EXCEPT !.status = 201,
                               !.class_id = row.class_id,
                               !.client_email = row.client_email,
                               !.available_slots =
                                    available_slots(get_class_by_id(row.class_id))]]
    /\ fitness_class' = [fitness_class EXCEPT ![r] = NoClass]
    /\ bookings' = bookings \ {row}
    /\ UNCHANGED <<now, classes, booking_data, new_booking>>

\* db.refresh and the 201 response: the booking with its class, whose
\* available_slots is loaded again from the store (the commit expired it)
Respond(r) ==
    LET row == CHOOSE b \in bookings : b.id = new_booking[r] IN
    /\ pc[r] = "respond"
    /\ UNCHANGED reply
    /\ pc' = [pc EXCEPT ![r] = "done"]
    /\ response' = [response EXCEPT ![r] =
            [NoResponse EXCEPT !.status = 201,
                               !.class_id = row.class_id,
                               !.client_email = row.client_email,
                               !.available_slots =
                                    available_slots(get_class_by_id(row.class_id))]]
    /\ fitness_class' = [fitness_class EXCEPT ![r] = NoClass]
    /\ UNCHANGED <<now, classes, bookings, booking_data, new_booking>>

\* the clock advances
Tick ==
    /\ now < MaxTime
    /\ now' = now + 1
    /\ UNCHANGED <<classes, bookings, pc, booking_data, fitness_class, new_booking,
                   response, reply>>

Next ==
    \/ Tick
    \/ \E r \in Reqs : ResolveClass(r)
    \/ \E r \in Reqs : CheckUpcoming(r)
    \/ \E r \in Reqs : CheckSlots(r)
    \/ \E r \in Reqs : CheckDuplicate(r)
    \/ \E r \in Reqs : InsertBooking(r)
    \/ \E r \in Reqs : Respond(r)

Spec == Init /\ [][Next]_vars

(***************************************************************************)
(* Sequential service: a request is accepted only when no other request    *)
(* is being handled, as when the client waits for each response before     *)
(* sending the next request (tests/test_api.py).                           *)
(***************************************************************************)
InFlight(r) == pc[r] \notin {"idle", "done"}

ResolveClassSeq(r) ==
    /\ \A q \in Reqs : ~InFlight(q)
    /\ ResolveClass(r)

NextSeq ==
    \/ Tick
    \/ \E r \in Reqs : ResolveClassSeq(r)
    \/ \E r \in Reqs : CheckUpcoming(r)
    \/ \E r \in Reqs : CheckSlots(r)
    \/ \E r \in Reqs : CheckDuplicate(r)
    \/ \E r \in Reqs : InsertBooking(r)
    \/ \E r \in Reqs : Respond(r)

SeqSpec == Init /\ [][NextSeq]_vars

(***************************************************************************)
(* The read operations (routes.py get_classes, get_bookings,               *)
(* get_class_details, health_check) and the queries they run.  A query     *)
(* with ORDER BY fixes the order of its rows only up to rows with equal    *)
(* keys, so an ordered query is the set of the sequences it may return.    *)
(***************************************************************************)

\* the parameters GET /classes is called with: skip >= 0 and
\* 1 <= limit <= PageLimitMax (dependencies.get_pagination_params)
PageLimitMax == 100
SkipInputs == 0 .. Cardinality(ClassIds)
LimitInputs == (1 .. Cardinality(ClassIds)) \cup {PageLimitMax}

\* the values GET /bookings is called with for its parameter email
EmailQueries ==
    { <<>>, <<" ">>, <<"a", "@", "x">>, <<"A", "@", "x">>,
      <<" ", "b", "@", "x">>, <<"c", "@", "x">> }

\* the rows of fitness_classes
FitnessClassRows == {get_class_by_id(c) : c \in DOMAIN classes}

\* the sequences that hold each element of S once
Arrangements(S) ==
    {f \in [1 .. Cardinality(S) -> S] : \A x \in S : \E i \in DOMAIN f : f[i] = x}

\* .order_by(FitnessClass.datetime_utc): the rows of S, datetime_utc ascending
OrderByDatetimeUtc(S) ==
    {f \in Arrangements(S) :
        \A i, j \in DOMAIN f : i < j => f[i].datetime_utc <= f[j].datetime_utc}

\* .order_by(Booking.booked_at.desc()): the rows of S, booked_at descending
OrderByBookedAtDesc(S) ==
    {f \in Arrangements(S) :
        \A i, j \in DOMAIN f : i < j => f[i].booked_at >= f[j].booked_at}

\* mutant of OffsetLimit: the window is cut before the offset is applied
OffsetLimit_LimitFirst(rows, skip, limit) ==
    SubSeq(rows, skip + 1, IF limit < Len(rows) THEN limit ELSE Len(rows))

\* .offset(skip).limit(limit)
OffsetLimit(rows, skip, limit) ==
    SubSeq(rows, skip + 1,
           IF skip + limit < Len(rows) THEN skip + limit ELSE Len(rows))

\* mutant of get_upcoming_classes: the filter keeps a class that starts now
get_upcoming_classes_including_now(skip, limit) ==
    LET current_time_utc == now
        upcoming == {fc \in FitnessClassRows : fc.datetime_utc >= current_time_utc}
    IN {OffsetLimit(rows, skip, limit) : rows \in OrderByDatetimeUtc(upcoming)}

\* crud.get_upcoming_classes: the pages the query may return
get_upcoming_classes(skip, limit) ==
    LET current_time_utc == now
        upcoming == {fc \in FitnessClassRows : fc.datetime_utc > current_time_utc}
    IN {OffsetLimit(rows, skip, limit) : rows \in OrderByDatetimeUtc(upcoming)}

\* mutant of get_bookings_by_email_ordered: oldest booking first
get_bookings_by_email_oldest_first(email) ==
    {f \in Arrangements(get_bookings_by_email(email)) :
        \A i, j \in DOMAIN f : i < j => f[i].booked_at <= f[j].booked_at}

\* crud.get_bookings_by_email with its ORDER BY booked_at DESC: the lists
\* the query may return
get_bookings_by_email_ordered(email) ==
    OrderByBookedAtDesc(get_bookings_by_email(email))

\* mutant of FitnessClassResponse: available_slots is the capacity
FitnessClassResponse_Capacity(fc) ==
    [id |-> fc.id, datetime_utc |-> fc.datetime_utc,
     total_slots |-> fc.total_slots, available_slots |-> fc.total_slots]

\* schemas.FitnessClassResponse built from a row (from_attributes): the
\* property available_slots is read when the response is built
FitnessClassResponse(fc) ==
    [id |-> fc.id, datetime_utc |-> fc.datetime_utc,
     total_slots |-> fc.total_slots, available_slots |-> available_slots(fc)]

\* schemas.BookingResponse built from a row: the booking with the details of
\* its class
BookingResponse(b) ==
    [id |-> b.id, class_id |-> b.class_id, client_email |-> b.client_email,
     booked_at |-> b.booked_at,
     fitness_class |-> FitnessClassResponse(get_class_by_id(b.class_id))]

\* no create-booking request is being handled and no read is being served
Quiet == (\A q \in Reqs : ~InFlight(q)) /\ reply.op = "none"

\* mutant of ListClasses: total counts every upcoming class
ListClasses_TotalOfAll(skip, limit) ==
    /\ Quiet
    /\ \E page \in get_upcoming_classes(skip, limit) :
        reply' = [NoReply EXCEPT
                    !.op = "get_classes", !.status = 200,
                    !.total = Cardinality({fc \in FitnessClassRows :
                                              fc.datetime_utc > now}),
                    !.items = [i \in DOMAIN page |-> FitnessClassResponse(page[i])],
                    !.skip = skip, !.limit = limit,
                    !.current_time_utc = now]
    /\ UNCHANGED <<now, classes, bookings, pc, booking_data, fitness_class,
                   new_booking, response>>

\* routes.get_classes: GET /classes?skip=..&limit=..
ListClasses(skip, limit) ==
    /\ Quiet
    /\ \E page \in get_upcoming_classes(skip, limit) :
        reply' = [NoReply EXCEPT
                    !.op = "get_classes", !.status = 200,
                    !.total = Len(page),
                    !.items = [i \in DOMAIN page |-> FitnessClassResponse(page[i])],
                    !.skip = skip, !.limit = limit,
                    !.current_time_utc = now]
    /\ UNCHANGED <<now, classes, bookings, pc, booking_data, fitness_class,
                   new_booking, response>>

\* mutant of GetBookings: a blank email is queried like any other
GetBookings_BlankQueried(given, email) ==
    /\ Quiet
    /\ given \/ email = <<>>
    /\ IF ~given
          THEN reply' = [NoReply EXCEPT !.op = "get_bookings", !.status = 422]
          ELSE \E rows \in get_bookings_by_email_ordered(Lower(validate_email_query(email))) :
                reply' = [NoReply EXCEPT
                            !.op = "get_bookings", !.status = 200,
                            !.email_given = TRUE, !.email = email,
                            !.email_normalized = Lower(validate_email_query(email)),
                            !.total = Len(rows),
                            !.items = [i \in DOMAIN rows |-> BookingResponse(rows[i])],
                            !.current_time_utc = now]
    /\ UNCHANGED <<now, classes, bookings, pc, booking_data, fitness_class,
                   new_booking, response>>

\* routes.get_bookings: GET /bookings, with the parameter email given or
\* not.  FastAPI rejects the request when the required parameter is not
\* given (main.validation_exception_handler: 422); validate_email_query
\* raises 400 for an empty or blank value; otherwise the ledger is queried,
\* and a row whose class no longer exists cannot be turned into a
\* BookingResponse (fitness_class is required): except Exception, 500.
GetBookings(given, email) ==
    /\ Quiet
    /\ given \/ email = <<>>
    /\ IF ~given
          THEN reply' = [NoReply EXCEPT !.op = "get_bookings", !.status = 422]
          ELSE IF get_bookings(email).status # 200
          THEN reply' = [NoReply EXCEPT
                            !.op = "get_bookings",
                            !.status = get_bookings(email).status,
                            !.email_given = TRUE, !.email = email]
          ELSE IF \E b \in get_bookings(email).bookings : b.class_id \notin DOMAIN classes
          THEN reply' = [NoReply EXCEPT
                            !.op = "get_bookings", !.status = 500,
                            !.email_given = TRUE, !.email = email]
          ELSE \E rows \in get_bookings_by_email_ordered(Lower(validate_email_query(email))) :
                reply' = [NoReply EXCEPT
                            !.op = "get_bookings", !.status = 200,
                            !.email_given = TRUE, !.email = email,
                            !.email_normalized = Lower(validate_email_query(email)),
                            !.total = Len(rows),
                            !.items = [i \in DOMAIN rows |-> BookingResponse(rows[i])],
                            !.current_time_utc = now]
    /\ UNCHANGED <<now, classes, bookings, pc, booking_data, fitness_class,
                   new_booking, response>>

\* mutant of GetClassDetails: the read closes the class it returns to
\* further bookings
GetClassDetails_ClosesClass(class_id) ==
    /\ Quiet
    /\ LET fc == get_class_by_id(class_id)
       IN /\ reply' = IF fc = NoClass
                         THEN [NoReply EXCEPT !.op = "get_class_details",
                                              !.status = 404]
                         ELSE [NoReply EXCEPT
                                !.op = "get_class_details", !.status = 200,
                                !.total = 1,
                                !.items = <<FitnessClassResponse(fc)>>,
                                !.current_time_utc = now]
          /\ classes' = IF fc = NoClass THEN classes
                        ELSE [classes EXCEPT ![class_id].total_slots = 0]
    /\ UNCHANGED <<now, bookings, pc, booking_data, fitness_class,
                   new_booking, response>>

\* routes.get_class_details: GET /classes/{class_id}
GetClassDetails(class_id) ==
    /\ Quiet
    /\ LET fc == get_class_by_id(class_id)
       IN reply' = IF fc = NoClass
                      THEN [NoReply EXCEPT !.op = "get_class_details", !.status = 404]
                      ELSE [NoReply EXCEPT
                                !.op = "get_class_details", !.status = 200,
                                !.total = 1,
                                !.items = <<FitnessClassResponse(fc)>>,
                                !.current_time_utc = now]
    /\ UNCHANGED <<now, classes, bookings, pc, booking_data, fitness_class,
                   new_booking, response>>

\* routes.health_check: GET /health
HealthCheck ==
    /\ Quiet
    /\ reply' = [NoReply EXCEPT !.op = "health_check", !.status = 200,
                                !.current_time_utc = now]
    /\ UNCHANGED <<now, classes, bookings, pc, booking_data, fitness_class,
                   new_booking, response>>

\* the response of the read has been sent
Return ==
    /\ reply.op # "none"
    /\ reply' = NoReply
    /\ UNCHANGED <<now, classes, bookings, pc, booking_data, fitness_class,
                   new_booking, response>>

\* a create-booking request is accepted when nothing else is being served
ResolveClassQuiet(r) ==
    /\ Quiet
    /\ ResolveClass(r)

NextQuery ==
    \/ Tick
    \/ \E r \in Reqs : ResolveClassQuiet(r)
    \/ \E r \in Reqs : CheckUpcoming(r)
    \/ \E r \in Reqs : CheckSlots(r)
    \/ \E r \in Reqs : CheckDuplicate(r)
    \/ \E r \in Reqs : InsertBooking(r)
    \/ \E r \in Reqs : Respond(r)
    \/ \E skip \in SkipInputs, limit \in LimitInputs : ListClasses(skip, limit)
    \/ \E email \in EmailQueries : GetBookings(TRUE, email)
    \/ GetBookings(FALSE, <<>>)
    \/ \E class_id \in RequestClassIds : GetClassDetails(class_id)
    \/ HealthCheck
    \/ Return

\* the service handling one operation at a time, reads included
QuerySpec == Init /\ [][NextQuery]_vars

(***************************************************************************)
(* Failures of the write step (routes.py step 5, crud.create_booking).     *)
(* db.add only registers the row in the session; the INSERT is sent by the *)
(* flush inside db.commit.  Any exception of crud.create_booking is caught *)
(* by "except Exception" and answered with a generic 500; the handler      *)
(* does nothing else, and get_db closes the session.                       *)
(***************************************************************************)

\* the response of "except Exception" in step 5
InternalError ==
    [NoResponse EXCEPT !.status = 500, !.error = "internal error"]

\* db.commit raises (the INSERT of its flush, or the COMMIT itself): the
\* transaction is rolled back, no row is stored
CommitFails(r) ==
    /\ pc[r] = "insert"
    /\ Fail(r, InternalError)
    /\ UNCHANGED <<booking_data, reply>>

\* db.refresh raises after db.commit went through: the row stays stored
RefreshFails(r) ==
    /\ pc[r] = "respond"
    /\ Fail(r, InternalError)
    /\ UNCHANGED <<booking_data, reply>>

NextFail ==
    \/ Tick
    \/ \E r \in Reqs : ResolveClassSeq(r)
    \/ \E r \in Reqs : CheckUpcoming(r)
    \/ \E r \in Reqs : CheckSlots(r)
    \/ \E r \in Reqs : CheckDuplicate(r)
    \/ \E r \in Reqs : InsertBooking(r)
    \/ \E r \in Reqs : Respond(r)
    \/ \E r \in Reqs : CommitFails(r)
    \/ \E r \in Reqs : RefreshFails(r)

\* the sequential service with a store whose statements may fail
FailSpec == Init /\ [][NextFail]_vars

(***************************************************************************)
(* Requests served side by side on a store whose statements may fail.  A   *)
(* handler has no loop and waits for nothing but the store, so a request   *)
(* that was accepted takes its next step whenever the store call it is at  *)
(* completes or fails: weak fairness of the steps of each request.  The    *)
(* requests are all sent by one client, for the class with a single slot   *)
(* or for a class that does not exist.                                     *)
(***************************************************************************)
ResolveClassOneClient(r) ==
    /\ ResolveClass(r)
    /\ booking_data'[r].class_id \in {1, MissingId}
    /\ booking_data'[r].client_email = <<"A", "@", "x">>

HandlerStep(r) ==
    \/ CheckUpcoming(r)
    \/ CheckSlots(r)
    \/ CheckDuplicate(r)
    \/ InsertBooking(r)
    \/ CommitFails(r)
    \/ Respond(r)
    \/ RefreshFails(r)

NextFair ==
    \/ Tick
    \/ \E r \in Reqs : ResolveClassOneClient(r)
    \/ \E r \in Reqs : CheckUpcoming(r)
    \/ \E r \in Reqs : CheckSlots(r)
    \/ \E r \in Reqs : CheckDuplicate(r)
    \/ \E r \in Reqs : InsertBooking(r)
    \/ \E r \in Reqs : CommitFails(r)
    \/ \E r \in Reqs : Respond(r)
    \/ \E r \in Reqs : RefreshFails(r)

FairSpec ==
    /\ Init
    /\ [][NextFair]_vars
    /\ \A r \in Reqs : WF_vars(HandlerStep(r))

(***************************************************************************)
(* The seeding script (seed_data.py create_sample_classes), run while no   *)
(* request is being handled.  It commits twice: first the bulk             *)
(* db.query(FitnessClass).delete(), a single DELETE FROM fitness_classes   *)
(* that does not load the classes, so the relationship's cascade           *)
(* (models.py) is not applied, and the bookings table has no ON DELETE     *)
(* rule and SQLite does not enforce the foreign key unless asked to; then  *)
(* the new classes, whose ids the emptied table assigns from 1 again.      *)
(***************************************************************************)

\* the sample classes the script creates at instant t: schedules are taken
\* from the clock, capacities are fixed
SampleClasses(t) ==
    [c \in ClassIds |->
        [datetime_utc |-> t + Catalogue[c].datetime_utc,
         total_slots |-> Catalogue[c].total_slots]]

\* db.query(FitnessClass).delete(); db.commit()
SeedClear ==
    /\ \A q \in Reqs : ~InFlight(q)
    /\ DOMAIN classes # {}
    /\ classes' = [c \in {} |-> NoClass]
    /\ UNCHANGED <<now, bookings, pc, booking_data, fitness_class, new_booking,
                   response, reply>>

\* db.add(FitnessClass(**class_data)) for each sample class; db.commit()
SeedCreate ==
    /\ \A q \in Reqs : ~InFlight(q)
    /\ DOMAIN classes = {}
    /\ classes' = SampleClasses(now)
    /\ UNCHANGED <<now, bookings, pc, booking_data, fitness_class, new_booking,
                   response, reply>>

NextSeed ==
    \/ Tick
    \/ \E r \in Reqs : ResolveClassSeq(r)
    \/ \E r \in Reqs : CheckUpcoming(r)
    \/ \E r \in Reqs : CheckSlots(r)
    \/ \E r \in Reqs : CheckDuplicate(r)
    \/ \E r \in Reqs : InsertBooking(r)
    \/ \E r \in Reqs : Respond(r)
    \/ SeedClear
    \/ SeedCreate

\* the sequential service and the seeding script on one store
SeedSpec == Init /\ [][NextSeed]_vars

(***************************************************************************)
(* Time conversion (app/utils/timezone.py, models.py datetime_ist).  A     *)
(* datetime is its wall-clock reading, in minutes, with its tzinfo:        *)
(* "none" for a naive datetime, "UTC", or "IST" for the configured         *)
(* display zone Asia/Kolkata, whose offset from UTC is +05:30 for every    *)
(* date since 1945.                                                        *)
(***************************************************************************)
MaxWall == 2        \* wall-clock readings are taken from two runs of 0 .. MaxWall

\* utcoffset of the display zone, in minutes
ISTOffset == 330

TzInfos == {"none", "UTC", "IST"}

WallClocks == (0 .. MaxWall) \cup {ISTOffset + w : w \in 0 .. MaxWall}

\* the datetimes the conversions are applied to
DatetimeInputs == [wall : WallClocks, tzinfo : TzInfos]

\* the UTC offsets a datetime string may end with, and the minutes of each
\* (datetime.fromisoformat gives such a datetime a fixed-offset tzinfo)
FixedOffsets ==
    [zone \in {"+00:00", "+05:30", "-05:00"} |->
        CASE zone = "+00:00" -> 0
          [] zone = "+05:30" -> 5 * 60 + 30
          [] zone = "-05:00" -> 0 - 5 * 60]

\* tzinfo.utcoffset
utcoffset(tzinfo) ==
    IF tzinfo = "IST" THEN ISTOffset
    ELSE IF tzinfo \in DOMAIN FixedOffsets THEN FixedOffsets[tzinfo]
    ELSE 0

\* tz.localize(dt): the naive reading is taken as a reading of that zone
localize(tzinfo, dt) == [wall |-> dt.wall, tzinfo |-> tzinfo]

\* dt.astimezone(tz): the same instant read in another zone
astimezone(dt, tzinfo) ==
    [wall |-> dt.wall - utcoffset(dt.tzinfo) + utcoffset(tzinfo),
     tzinfo |-> tzinfo]

\* mutant of datetime_to_ist: a naive datetime is taken as display time
datetime_to_ist_naive_as_ist(dt) ==
    astimezone(IF dt.tzinfo = "none" THEN localize("IST", dt) ELSE dt, "IST")

\* timezone.datetime_to_ist
datetime_to_ist(dt) ==
    astimezone(IF dt.tzinfo = "none" THEN localize("UTC", dt) ELSE dt, "IST")

\* FitnessClass.datetime_ist, for the value of the column datetime_utc
datetime_ist(datetime_utc) ==
    LET utc_dt == IF datetime_utc.tzinfo = "none"
                     THEN localize("UTC", datetime_utc)
                     ELSE datetime_utc
    IN astimezone(utc_dt, "IST")

\* timezone.ist_to_utc
ist_to_utc(dt) ==
    astimezone(IF dt.tzinfo = "none" THEN localize("IST", dt) ELSE dt, "UTC")

\* the datetime strings handed to parse_ist_string: a wall-clock reading
\* followed by nothing, by "Z" or by a UTC offset
DatetimeStrings == [wall : WallClocks, zone : {"", "Z"} \cup DOMAIN FixedOffsets]

\* dt_string.replace('Z', '+00:00')
replace_Z(dt_string) ==
    [dt_string EXCEPT !.zone = IF @ = "Z" THEN "+00:00" ELSE @]

\* datetime.fromisoformat: naive when the string ends with no offset
fromisoformat(dt_string) ==
    [wall |-> dt_string.wall,
     tzinfo |-> IF dt_string.zone = "" THEN "none" ELSE dt_string.zone]

\* mutant of parse_ist_string: the reading is taken as display time whatever
\* offset the string carries
parse_ist_string_offset_ignored(dt_string) ==
    LET dt == fromisoformat(replace_Z(dt_string))
    IN astimezone(localize("IST", dt), "UTC")

\* timezone.parse_ist_string
parse_ist_string(dt_string) ==
    LET dt == fromisoformat(replace_Z(dt_string))
    IN astimezone(IF dt.tzinfo = "none" THEN localize("IST", dt) ELSE dt, "UTC")

MaxChain == 2       \* conversions applied one after the other to an input

\* a datetime is handed to the conversions
StartConversion(dt) ==
    /\ reply.op = "none"
    /\ reply' = [NoReply EXCEPT !.op = "convert",
                                !.items = <<[fn |-> "input", value |-> dt]>>]
    /\ UNCHANGED <<now, classes, bookings, pc, booking_data, fitness_class,
                   new_booking, response>>

\* a datetime string is parsed
Parse(dt_string) ==
    /\ reply.op = "none"
    /\ reply' = [NoReply EXCEPT
                    !.op = "convert",
                    !.items = <<[fn |-> "text", value |-> dt_string],
                                [fn |-> "parse_ist_string",
                                 value |-> parse_ist_string(dt_string)]>>]
    /\ UNCHANGED <<now, classes, bookings, pc, booking_data, fitness_class,
                   new_booking, response>>

\* the value converted last is the reply's last item
Converted == reply.items[Len(reply.items)].value

Chain(fn, value) ==
    /\ reply.op = "convert"
    /\ Len(reply.items) <= MaxChain
    /\ reply' = [reply EXCEPT !.items = Append(@, [fn |-> fn, value |-> value])]
    /\ UNCHANGED <<now, classes, bookings, pc, booking_data, fitness_class,
                   new_booking, response>>

ToDisplay == Chain("datetime_to_ist", datetime_to_ist(Converted))

ToDisplayOfColumn == Chain("datetime_ist", datetime_ist(Converted))

ToStorage == Chain("ist_to_utc", ist_to_utc(Converted))

NextTime ==
    \/ \E dt \in DatetimeInputs : StartConversion(dt)
    \/ \E dt_string \in DatetimeStrings : Parse(dt_string)
    \/ ToDisplay
    \/ ToDisplayOfColumn
    \/ ToStorage
    \/ Return

\* the conversions applied to every input, alone and chained
TimeSpec == Init /\ [][NextTime]_vars

(***************************************************************************)
(* Vocabulary of the properties.                                           *)
(***************************************************************************)
Done(r) == pc[r] = "done"

Created(r) == Done(r) /\ response[r].status = 201

FullyBooked(r) ==
    Done(r) /\ response[r].status = 409 /\ response[r].error = "fully booked"

AlreadyBooked(r) ==
    Done(r) /\ response[r].status = 409 /\ response[r].error = "already booked"

\* a letter is lowercase: decided on the characters, without str.lower()
UpperChars == {"A", "B"}
IsLowerCase(s) == \A i \in DOMAIN s : s[i] \notin UpperChars

\* two emails differ at most in the case of their letters
SameLetter(x, y) == x = y \/ {x, y} = {"a", "A"} \/ {x, y} = {"b", "B"}
CaseVariant(e, s) == Len(e) = Len(s) /\ \A i \in DOMAIN s : SameLetter(e[i], s[i])
CaseVariants(s) == {e \in EmailInputs : CaseVariant(e, s)}

\* the class a request asks for exists and has not reached its scheduled instant
Upcoming(r) ==
    /\ booking_data[r].class_id \in DOMAIN classes
    /\ classes[booking_data[r].class_id].datetime_utc > now

\* no other request issued so far asks for the same class with the same email
DistinctEmail(r) ==
    \A q \in Reqs \ {r} :
        pc[q] # "idle" =>
            ~ ( /\ booking_data[q].class_id = booking_data[r].class_id
                /\ CaseVariant(booking_data[q].client_email, booking_data[r].client_email) )

\* the rows of a class that a request did not insert itself
OtherBookings(r) ==
    {b \in class_bookings(booking_data[r].class_id) : b.id # new_booking[r]}

\* every row was inserted by exactly one request, and each request that
\* inserted a row inserted exactly one
BookingsAccounted ==
    /\ \A b \in bookings : Cardinality({r \in Reqs : new_booking[r] = b.id}) = 1
    /\ \A r \in Reqs : new_booking[r] # NoBooking =>
            Cardinality({b \in bookings : b.id = new_booking[r]}) = 1

(***************************************************************************)
(* C1: in every reachable state, every class has at most total_slots       *)
(* bookings, also when create-booking requests for it interleave between   *)
(* their capacity check and their insert.                                  *)
(***************************************************************************)
C1_CapacityNeverExceeded ==
    \A c \in DOMAIN classes :
        Cardinality(class_bookings(c)) <= classes[c].total_slots

(***************************************************************************)
(* C2: in every reachable state there is at most one booking for each      *)
(* pair (class_id, lowercase client_email), also when requests for the     *)
(* same class and the same email run concurrently.                         *)
(***************************************************************************)
C2_AtMostOneBookingPerClassAndEmail ==
    \A b1, b2 \in bookings :
        (b1.class_id = b2.class_id /\ b1.client_email = b2.client_email) => b1 = b2

(***************************************************************************)
(* C3: when all the requests of the behaviour target one upcoming class    *)
(* with k free slots, with pairwise distinct emails, and there are more    *)
(* requests than slots, then once all have completed exactly k returned    *)
(* 201 and the others returned 409 "fully booked".                         *)
(***************************************************************************)
C3_ExactlyKSucceed ==
    \A c \in DOMAIN classes :
        LET k == classes[c].total_slots IN
        ( /\ \A r \in Reqs : Done(r) /\ booking_data[r].class_id = c
          /\ \A r1, r2 \in Reqs :
                r1 # r2 => Lower(booking_data[r1].client_email)
                            # Lower(booking_data[r2].client_email)
          /\ classes[c].datetime_utc > now
          /\ k < NumReqs )
        => /\ Cardinality({r \in Reqs : Created(r)}) = k
           /\ Cardinality({r \in Reqs : FullyBooked(r)}) = NumReqs - k

(***************************************************************************)
(* C4: requests served one after the other, with distinct emails, on an    *)
(* upcoming class: a request issued when the class has total_slots         *)
(* bookings returns 409 "fully booked" and adds no booking; a request      *)
(* issued when it has fewer returns 201 and adds exactly one booking.      *)
(* Stated on every state from the one right after the response on: a 409   *)
(* leaves the class full and the request without a row, a 201 leaves the   *)
(* request's one row in a class that is not overbooked.                    *)
(***************************************************************************)
C4_SequentialCapacity ==
    /\ BookingsAccounted
    /\ \A r \in Reqs :
        LET c == booking_data[r].class_id IN
        (Done(r) /\ Upcoming(r) /\ DistinctEmail(r)) =>
            \/ /\ FullyBooked(r)
               /\ new_booking[r] = NoBooking
               /\ Cardinality(class_bookings(c)) >= classes[c].total_slots
            \/ /\ Created(r)
               /\ Cardinality({b \in class_bookings(c) : b.id = new_booking[r]}) = 1
               /\ Cardinality(class_bookings(c)) <= classes[c].total_slots

C4_Witness ==
    \E r1, r2 \in Reqs :
        /\ booking_data[r1].class_id = booking_data[r2].class_id
        /\ Upcoming(r2) /\ DistinctEmail(r2)
        /\ Created(r1)
        /\ FullyBooked(r2)

(***************************************************************************)
(* C5: requests served one after the other: when a booking for the same    *)
(* class and the same email (compared after lowercasing) already exists    *)
(* and the class is upcoming and not full, the request returns 409         *)
(* "already booked" and inserts nothing.                                   *)
(***************************************************************************)
C5_SequentialDuplicate ==
    \A r \in Reqs :
        LET c == booking_data[r].class_id IN
        ( /\ Done(r) /\ Upcoming(r)
          /\ Cardinality(OtherBookings(r)) < classes[c].total_slots
          /\ \E b \in OtherBookings(r) :
                CaseVariant(b.client_email, booking_data[r].client_email) )
        => /\ AlreadyBooked(r)
           /\ new_booking[r] = NoBooking
           /\ BookingsAccounted

C5_Witness ==
    \E r \in Reqs :
        /\ AlreadyBooked(r) /\ Upcoming(r)
        /\ ~IsLowerCase(booking_data[r].client_email)
        /\ Cardinality(OtherBookings(r)) < classes[booking_data[r].class_id].total_slots

(***************************************************************************)
(* C6: a request whose class_id matches no class returns 404 with a        *)
(* message naming that id and "not found", and creates no booking,         *)
(* whatever its email is.                                                  *)
(***************************************************************************)
C6_MissingClassNotFound ==
    \A r \in Reqs :
        (pc[r] # "idle" /\ booking_data[r].class_id \notin DOMAIN classes) =>
            /\ Done(r)
            /\ response[r].status = 404
            /\ response[r].error = "not found"
            /\ response[r].class_id = booking_data[r].class_id
            /\ new_booking[r] = NoBooking
            /\ class_bookings(booking_data[r].class_id) = {}

C6_Witness ==
    \E r \in Reqs :
        /\ Done(r) /\ booking_data[r].class_id = MissingId
        /\ response[r].status = 404
        /\ bookings # {}

(***************************************************************************)
(* C7: a request for an existing class whose scheduled instant is less     *)
(* than or equal to the current instant when the time gate is evaluated    *)
(* fails with 400; a class scheduled exactly at "now" is rejected.         *)
(***************************************************************************)
C7_StartedClassRejected ==
    [][ \A r \in Reqs :
            ( /\ pc[r] = "check_upcoming"
              /\ pc'[r] # "check_upcoming"
              /\ fitness_class[r].datetime_utc <= now )
            => (pc'[r] = "done" /\ response'[r].status = 400) ]_vars

(***************************************************************************)
(* C8: the gates are evaluated in the order class-exists, not-in-the-past, *)
(* capacity, duplicate, and the first failing gate decides: a past class   *)
(* gives 400 whatever the bookings are, a full class gives "fully booked"  *)
(* even when the email has already booked it, and each outcome is only     *)
(* produced by its own gate.                                               *)
(***************************************************************************)
GateOrder ==
    { <<"idle", "check_upcoming">>, <<"idle", "done">>,
      <<"check_upcoming", "check_slots">>, <<"check_upcoming", "done">>,
      <<"check_slots", "check_duplicate">>, <<"check_slots", "done">>,
      <<"check_duplicate", "insert">>, <<"check_duplicate", "done">>,
      <<"insert", "respond">>, <<"respond", "done">> }

C8_GateOrder ==
    [][ \A r \in Reqs :
            pc'[r] # pc[r] =>
                /\ <<pc[r], pc'[r]>> \in GateOrder
                /\ (pc[r] = "check_upcoming" /\ fitness_class[r].datetime_utc < now)
                        => (pc'[r] = "done" /\ response'[r].status = 400)
                /\ ( /\ pc[r] = "check_slots"
                     /\ Cardinality(class_bookings(booking_data[r].class_id))
                            >= classes[booking_data[r].class_id].total_slots )
                        => /\ pc'[r] = "done"
                           /\ response'[r].status = 409
                           /\ response'[r].error = "fully booked"
                /\ pc'[r] = "done" =>
                        \/ pc[r] = "idle" /\ response'[r].status = 404
                        \/ pc[r] = "check_upcoming" /\ response'[r].status = 400
                        \/ /\ pc[r] = "check_slots"
                           /\ response'[r].status = 409
                           /\ response'[r].error = "fully booked"
                        \/ /\ pc[r] = "check_duplicate"
                           /\ response'[r].status = 409
                           /\ response'[r].error = "already booked"
                        \/ pc[r] = "respond" /\ response'[r].status = 201 ]_vars

\* a full upcoming class answered "fully booked" to an email that had booked it
C8_Witness ==
    \E r \in Reqs :
        /\ FullyBooked(r)
        /\ \E b \in OtherBookings(r) :
                CaseVariant(b.client_email, booking_data[r].client_email)

\* a past class answered 400 although it was full and the email had booked it
C8_WitnessPast ==
    \E r \in Reqs :
        /\ Done(r) /\ response[r].status = 400
        /\ Cardinality(OtherBookings(r)) >= classes[booking_data[r].class_id].total_slots
        /\ \E b \in OtherBookings(r) :
                CaseVariant(b.client_email, booking_data[r].client_email)

(***************************************************************************)
(* C9: a request that ends in 404, 400 or 409 has written nothing: the     *)
(* step that ends it leaves classes and bookings as they are, the request  *)
(* never inserted a row, and the only steps that change the store are the  *)
(* inserts of requests that go on to answer 201.                           *)
(***************************************************************************)
FailureStatus == {404, 400, 409}

C9_FailuresLeaveStoreUnchanged ==
    [][ /\ (classes' # classes \/ bookings' # bookings) =>
                \E r \in Reqs :
                    /\ pc[r] = "insert" /\ pc'[r] = "respond"
                    /\ new_booking[r] = NoBooking /\ new_booking'[r] # NoBooking
                    /\ classes' = classes
                    /\ bookings' \ bookings =
                            {b \in bookings' : b.id = new_booking'[r]}
                    /\ bookings \subseteq bookings'
        /\ \A r \in Reqs :
                /\ new_booking[r] # NoBooking => new_booking'[r] = new_booking[r]
                /\ ( /\ pc[r] # "done" /\ pc'[r] = "done"
                     /\ response'[r].status \in FailureStatus )
                   => /\ classes' = classes
                      /\ bookings' = bookings
                      /\ new_booking[r] = NoBooking
                      /\ new_booking'[r] = NoBooking ]_vars

C9_Witness ==
    \E r \in Reqs :
        /\ Done(r) /\ response[r].status \in FailureStatus
        /\ new_booking[r] = NoBooking
        /\ bookings # {}

(***************************************************************************)
(* C10: every stored booking's client_email is in lowercase, and after a   *)
(* successful booking made with an email in any letter case, GET /bookings *)
(* with any letter-case variant of that email returns that booking.        *)
(***************************************************************************)
C10_EmailsLowercased ==
    /\ \A b \in bookings : IsLowerCase(b.client_email)
    /\ \A r \in Reqs :
            Created(r) =>
                \A e \in CaseVariants(booking_data[r].client_email) :
                    /\ get_bookings(e).status = 200
                    /\ \E b \in get_bookings(e).bookings : b.id = new_booking[r]

C10_Witness ==
    \E r \in Reqs :
        /\ Created(r)
        /\ ~IsLowerCase(booking_data[r].client_email)
        /\ \E e \in CaseVariants(booking_data[r].client_email) :
                /\ e # booking_data[r].client_email
                /\ \E b \in get_bookings(e).bookings : b.id = new_booking[r]

(***************************************************************************)
(* Vocabulary of the properties of the read operations.                    *)
(***************************************************************************)
\* the response being served is a page of GET /classes
ListedClasses == reply.op = "get_classes"

\* the response being served is a list of GET /bookings
ListedBookings == reply.op = "get_bookings" /\ reply.status = 200

\* the classes that were upcoming at the instant the listing was taken
UpcomingAt(t) == {c \in DOMAIN classes : classes[c].datetime_utc > t}

\* the class ids of the page being served, in order
ListedIds == [i \in DOMAIN reply.items |-> reply.items[i].id]

\* s lists each class of S once, scheduled instants ascending
AscendingListOf(s, S) ==
    /\ Len(s) = Cardinality(S)
    /\ \A c \in S : \E i \in DOMAIN s : s[i] = c
    /\ \A i, j \in DOMAIN s :
        i < j => classes[s[i]].datetime_utc <= classes[s[j]].datetime_utc

\* C11: list-upcoming never returns a class whose scheduled instant is at or
\* before the instant of the call, for every skip and limit
C11_ListUpcomingExcludesStarted ==
    ListedClasses =>
        \A i \in DOMAIN reply.items :
            ~(reply.items[i].datetime_utc <= reply.current_time_utc)

\* a listing taken when one class had started and another had not
C11_Witness ==
    /\ ListedClasses
    /\ reply.total > 0
    /\ \E c \in DOMAIN classes : classes[c].datetime_utc <= reply.current_time_utc

\* C12: list-upcoming(skip, limit) returns exactly the positions skip ..
\* skip+limit-1 of the upcoming classes sorted ascending by scheduled
\* instant; limit 1 and skip 0 give the earliest upcoming class, and skip 1 on
\* two upcoming classes gives the later one
C12_ListUpcomingWindow ==
    ListedClasses =>
        LET S == UpcomingAt(reply.current_time_utc)
            n == Cardinality(S)
        IN /\ \E s \in [1 .. n -> S] :
                /\ AscendingListOf(s, S)
                /\ \A k \in 1 .. n :
                    (reply.skip < k /\ k <= reply.skip + reply.limit)
                        <=> /\ k - reply.skip \in DOMAIN ListedIds
                            /\ ListedIds[k - reply.skip] = s[k]
                /\ Len(ListedIds) =
                    Cardinality({k \in 1 .. n :
                                    reply.skip < k /\ k <= reply.skip + reply.limit})
           /\ (reply.limit = 1 /\ reply.skip = 0 /\ n > 0) =>
                /\ Len(ListedIds) = 1
                /\ \A c \in S :
                    classes[ListedIds[1]].datetime_utc <= classes[c].datetime_utc
           /\ (reply.skip = 1 /\ n = 2) =>
                /\ Len(ListedIds) = 1
                /\ \A c \in S :
                    classes[ListedIds[1]].datetime_utc >= classes[c].datetime_utc

\* the second page of one class, taken while two classes were upcoming
C12_Witness ==
    /\ ListedClasses
    /\ reply.skip = 1
    /\ reply.limit = 1
    /\ Cardinality(UpcomingAt(reply.current_time_utc)) = 2
    /\ Len(reply.items) = 1

\* a read of GET /bookings is answered in this step
AnswersGetBookings == reply.op = "none" /\ reply'.op = "get_bookings"

\* the value holds no character other than blanks
Blank(s) == \A i \in DOMAIN s : s[i] = " "

\* the value has no blank at either end
Trimmed(s) == s # <<>> /\ Head(s) # " " /\ s[Len(s)] # " "

\* the ledger holds no booking under any letter-case variant of the email
NoBookingsFor(email) == ~\E b \in bookings : CaseVariant(b.client_email, email)

\* the response being built carries no booking and the store is as it was
NothingReadOrWritten ==
    /\ reply'.items = <<>>
    /\ reply'.total = 0
    /\ bookings' = bookings
    /\ classes' = classes

\* C13 as stated: GET /bookings answers 422 both when email is missing and
\* when it is present but empty or blank, the ledger being neither queried
\* nor changed; an email with no bookings gets 200, total 0, an empty list
C13_BlankEmailIs422 ==
    [][AnswersGetBookings =>
        /\ ~reply'.email_given => reply'.status = 422 /\ NothingReadOrWritten
        /\ (reply'.email_given /\ Blank(reply'.email)) =>
                reply'.status = 422 /\ NothingReadOrWritten
        /\ (reply'.email_given /\ Trimmed(reply'.email)
                /\ NoBookingsFor(reply'.email)) =>
                reply'.status = 200 /\ NothingReadOrWritten]_vars

\* C13 amended: GET /bookings answers 422 when email is missing and 400 when
\* it is present but empty or blank, the ledger being neither queried nor
\* changed in either case; an email with no bookings gets 200, total 0 and an
\* empty list
C13_EmailQueryOutcomes ==
    [][AnswersGetBookings =>
        /\ ~reply'.email_given => reply'.status = 422 /\ NothingReadOrWritten
        /\ (reply'.email_given /\ Blank(reply'.email)) =>
                reply'.status = 400 /\ NothingReadOrWritten
        /\ (reply'.email_given /\ Trimmed(reply'.email)
                /\ NoBookingsFor(reply'.email)) =>
                reply'.status = 200 /\ NothingReadOrWritten]_vars

\* a blank email was refused with 400 while the ledger held a booking
C13_Witness ==
    /\ reply.op = "get_bookings"
    /\ reply.email_given
    /\ reply.email = <<" ">>
    /\ reply.status = 400
    /\ bookings # {}

\* total_slots of the class minus the bookings stored for it now
SlotsLeft(c) ==
    classes[c].total_slots - Cardinality({b \in bookings : b.class_id = c})

\* a read that reports classes is answered in this step
AnswersClasses ==
    reply.op = "none" /\ reply'.op \in {"get_classes", "get_class_details"}

\* C14: the available_slots any read reports for a class is its total_slots
\* minus the bookings stored for it at that moment; the insert of a request
\* takes one slot, and the 201 response reports the slots left after that
\* insert, one less than before it
C14_AvailableSlotsAreRecomputed ==
    [][/\ AnswersClasses =>
            \A i \in DOMAIN reply'.items :
                /\ reply'.items[i].total_slots = classes[reply'.items[i].id].total_slots
                /\ reply'.items[i].available_slots = SlotsLeft(reply'.items[i].id)
       /\ AnswersGetBookings =>
            \A i \in DOMAIN reply'.items :
                reply'.items[i].fitness_class.available_slots
                    = SlotsLeft(reply'.items[i].class_id)
       /\ \A r \in Reqs :
            /\ (pc[r] = "insert" /\ pc'[r] = "respond") =>
                    SlotsLeft(booking_data[r].class_id)' =
                        SlotsLeft(booking_data[r].class_id) - 1
            /\ (pc[r] = "respond" /\ pc'[r] = "done" /\ response'[r].status = 201) =>
                    /\ bookings' = bookings
                    /\ response'[r].available_slots =
                            SlotsLeft(booking_data[r].class_id)]_vars

\* a booking answered 201 with the slots left after it, and a later listing
\* reports the same number for that class, below its capacity
C14_Witness ==
    /\ reply.op = "get_classes"
    /\ \E r \in Reqs :
        /\ Created(r)
        /\ \E i \in DOMAIN reply.items :
            /\ reply.items[i].id = response[r].class_id
            /\ reply.items[i].available_slots = response[r].available_slots
            /\ reply.items[i].available_slots < reply.items[i].total_slots

\* the row a request inserted, as the store holds it now
RowsOf(r) == {b \in bookings : b.id = new_booking[r]}

\* the read being served, if any, returns the row: the listing by its email
\* holds it, and a listing of its class counts it
SeenByRead(b) ==
    /\ (ListedBookings /\ reply.email_normalized = b.client_email) =>
            \E i \in DOMAIN reply.items :
                /\ reply.items[i].id = b.id
                /\ reply.items[i].class_id = b.class_id
    /\ reply.op \in {"get_classes", "get_class_details"} =>
            \A i \in DOMAIN reply.items :
                reply.items[i].id = b.class_id =>
                    reply.items[i].available_slots < reply.items[i].total_slots

\* C15: when a create-booking request answers 201 its booking is already in
\* the store, and it is there in every later state: every read that starts
\* after the 201 returns it (reads are served only between requests, so a
\* read held while a request is answered started after the answer)
C15_CreatedIsCommitted ==
    \A r \in Reqs :
        (pc[r] = "respond" \/ Created(r)) =>
            \E b \in RowsOf(r) :
                /\ b.class_id = booking_data[r].class_id
                /\ CaseVariant(b.client_email, booking_data[r].client_email)
                /\ check_existing_booking(b.class_id, b.client_email)
                /\ SeenByRead(b)

\* a request was answered 201 and the listing of its client's bookings, read
\* afterwards, holds the new booking
C15_Witness ==
    \E r \in Reqs :
        /\ Created(r)
        /\ ListedBookings
        /\ \E i \in DOMAIN reply.items : reply.items[i].id = new_booking[r]

\* the rows stored for the class and the email a request was sent with
BookingsAsked(r) ==
    {b \in bookings : /\ b.class_id = booking_data[r].class_id
                      /\ CaseVariant(b.client_email, booking_data[r].client_email)}

\* C16: a create-booking request whose write step failed answers a generic
\* 500, and no booking created by that request is stored afterwards
C16_FailedWriteLeavesNoBooking ==
    [][\A r \in Reqs :
        (pc[r] \in {"insert", "respond"} /\ pc'[r] = "done"
            /\ response'[r].status # 201) =>
                /\ response'[r] = InternalError
                /\ RowsOf(r)' = {}
                /\ BookingsAsked(r)' = {}]_vars

\* the classes of the catalogue are replaced in this step by new ones
ClassesCreated == DOMAIN classes = {} /\ DOMAIN classes' # {}

\* C17: deleting a class deletes its bookings: in every state, also after
\* the seeding script cleared the classes and after it created new ones,
\* every stored booking references an existing class, and no new class
\* starts with bookings
C17_DeletingClassDeletesBookings ==
    [][/\ \A b \in bookings' : b.class_id \in DOMAIN classes'
       /\ ClassesCreated =>
            \A c \in DOMAIN classes' :
                {b \in bookings' : b.class_id = c} = {}]_vars

\* C18: get-bookings-by-email returns exactly the stored bookings whose
\* client_email is the lowercased query email, each once, booked_at
\* descending, and total is the number of bookings returned
C18_BookingsByEmail ==
    ListedBookings =>
        /\ IsLowerCase(reply.email_normalized)
        /\ CaseVariant(reply.email_normalized, Strip(reply.email))
        /\ \A b \in bookings :
            b.client_email = reply.email_normalized <=>
                \E i \in DOMAIN reply.items : reply.items[i].id = b.id
        /\ \A i \in DOMAIN reply.items :
            \E b \in bookings :
                /\ b.id = reply.items[i].id
                /\ b.class_id = reply.items[i].class_id
                /\ b.client_email = reply.items[i].client_email
                /\ b.booked_at = reply.items[i].booked_at
        /\ \A i, j \in DOMAIN reply.items :
            i < j => /\ reply.items[i].id # reply.items[j].id
                     /\ reply.items[i].booked_at >= reply.items[j].booked_at
        /\ reply.total = Len(reply.items)

\* two bookings of one client made at different instants are listed through
\* a query in another letter case, the newer one first
C18_Witness ==
    /\ ListedBookings
    /\ ~IsLowerCase(reply.email)
    /\ reply.total = 2
    /\ reply.items[1].booked_at > reply.items[2].booked_at

\* C19: total of a list-classes response is the number of classes in that
\* page, at most limit, not the number of all upcoming classes; when the
\* upcoming classes from position skip on are more than limit, total is limit
C19_TotalIsPageSize ==
    ListedClasses =>
        LET n == Cardinality(UpcomingAt(reply.current_time_utc))
        IN /\ reply.total = Len(reply.items)
           /\ reply.total <= reply.limit
           /\ reply.total <= n
           /\ n - reply.skip > reply.limit => reply.total = reply.limit

\* a page of one class out of two upcoming classes: total is 1, not 2
C19_Witness ==
    /\ ListedClasses
    /\ reply.skip = 0
    /\ reply.limit = 1
    /\ Cardinality(UpcomingAt(reply.current_time_utc)) = 2
    /\ reply.total = 1

\* the absolute instant a datetime denotes, in minutes: a reading of the
\* display zone is 330 minutes ahead of UTC, a zone-less reading counts as UTC
InstantOf(dt) == IF dt.tzinfo = "IST" THEN dt.wall - 330 ELSE dt.wall

ToDisplayFns == {"datetime_to_ist", "datetime_ist"}
ToStorageFns == {"ist_to_utc"}

\* the positions k of the chain being served at which a function of first and
\* then a function of second were applied to the value at k
RoundTrips(first, second) ==
    IF reply.op # "convert" THEN {}
    ELSE {k \in 1 .. Len(reply.items) - 2 :
            /\ reply.items[k + 1].fn \in first
            /\ reply.items[k + 2].fn \in second}

ValueAt(k) == reply.items[k].value

\* C20: the conversions are inverse on instants: toStorage(toDisplay(i))
\* denotes the same instant as i, whether i is zone-less (taken as UTC) or
\* zone-aware, and for a zone-less wall-clock value w, toDisplay(toStorage(w))
\* reads w in the display zone
C20_ConversionsAreInverse ==
    /\ \A k \in RoundTrips(ToDisplayFns, ToStorageFns) :
            /\ InstantOf(ValueAt(k + 2)) = InstantOf(ValueAt(k))
            /\ ValueAt(k + 2).tzinfo = "UTC"
            /\ ValueAt(k + 1).tzinfo = "IST"
            /\ InstantOf(ValueAt(k + 1)) = InstantOf(ValueAt(k))
    /\ \A k \in RoundTrips(ToStorageFns, ToDisplayFns) :
            ValueAt(k).tzinfo = "none" =>
                /\ ValueAt(k + 2).wall = ValueAt(k).wall
                /\ ValueAt(k + 2).tzinfo = "IST"
                /\ InstantOf(ValueAt(k + 1)) = ValueAt(k).wall - 330

\* a zone-less stored instant went to the display zone, where it reads
\* differently, and came back to storage with its first reading
C20_Witness ==
    /\ 1 \in RoundTrips({"datetime_to_ist"}, ToStorageFns)
    /\ ValueAt(1).tzinfo = "none"
    /\ ValueAt(2).wall # ValueAt(1).wall
    /\ ValueAt(3).wall = ValueAt(1).wall

\* a datetime string was parsed: the string and the datetime returned
Parsed ==
    /\ reply.op = "convert"
    /\ Len(reply.items) >= 2
    /\ reply.items[2].fn = "parse_ist_string"

\* the minutes ahead of UTC a string's ending states, when it states any
StatedOffset(zone) ==
    CASE zone = "Z" -> 0
      [] zone = "+00:00" -> 0
      [] zone = "+05:30" -> 330
      [] zone = "-05:00" -> -300

\* C21: parse(text) respects an explicit offset: the result is the instant
\* of the wall-clock reading minus that offset, "Z" being offset zero,
\* whatever the display zone is; a text without offset gives the instant
\* toStorage gives for the same zone-less reading
C21_ParseRespectsOffset ==
    Parsed =>
        LET text == ValueAt(1)
            instant == ValueAt(2)
        IN /\ instant.tzinfo = "UTC"
           /\ text.zone # "" =>
                InstantOf(instant) = text.wall - StatedOffset(text.zone)
           /\ text.zone = "" =>
                /\ instant = ist_to_utc([wall |-> text.wall, tzinfo |-> "none"])
                /\ InstantOf(instant) = text.wall - 330

\* a text ending in "Z" was parsed to the instant of its own reading, which
\* is not the instant the same reading has in the display zone
C21_Witness ==
    /\ Parsed
    /\ ValueAt(1).zone = "Z"
    /\ ValueAt(2).wall = ValueAt(1).wall
    /\ ValueAt(2) # ist_to_utc([wall |-> ValueAt(1).wall, tzinfo |-> "none"])

\* the bookings stored for a class
BookingCount(c) == Cardinality({b \in bookings : b.class_id = c})

\* the requests whose booking was written: answered 201, or being answered
Writers == {r \in Reqs : pc[r] = "respond" \/ Created(r)}

Rank(position) ==
    CASE position = "idle" -> 0
      [] position = "check_upcoming" -> 1
      [] position = "check_slots" -> 2
      [] position = "check_duplicate" -> 3
      [] position = "insert" -> 4
      [] position = "respond" -> 5
      [] position = "done" -> 6

Outcomes == {201, 404, 400, 409, 500}

\* every step of a request moves it forward, and it is answered once, when
\* it ends, with one of the five outcomes
SinglePass ==
    \A r \in Reqs :
        /\ pc'[r] # pc[r] => Rank(pc'[r]) > Rank(pc[r])
        /\ response[r] # NoResponse => response'[r] = response[r]
        /\ response'[r] # NoResponse <=> pc'[r] = "done"
        /\ pc'[r] = "done" => response'[r].status \in Outcomes

\* C23: a create-booking request is a single pass without retries and, the
\* store calls completing or failing, it eventually ends with exactly one
\* of the outcomes 201, 404, 400, 409, 500, however the other requests
\* interleave with it
C23_RequestsTerminate ==
    /\ [][SinglePass]_vars
    /\ \A r \in Reqs : (pc[r] # "idle") ~> Done(r)

\* two requests ran side by side and both ended, one with 201 and one with
\* 500
C23_Witness ==
    \E r, q \in Reqs :
        /\ Created(r)
        /\ Done(q)
        /\ response[q].status = 500
        /\ new_booking[q] # NoBooking
        /\ new_booking[q] < new_booking[r]

\* C24: the booked_at of every stored booking is strictly earlier than the
\* scheduled instant of its class, also when the clock advances between the
\* time gate of the request and its insert
C24_BookedBeforeClassStarts ==
    \A b \in bookings :
        b.class_id \in DOMAIN classes =>
            b.booked_at < classes[b.class_id].datetime_utc

\* the store and the state of the booking requests: everything but the
\* response of the read being served
booking_vars ==
    <<now, classes, bookings, pc, booking_data, fitness_class, new_booking, response>>

ReadOps == {"get_classes", "get_class_details", "get_bookings", "health_check"}

\* a read is answered in this step, with whatever status
AnswersRead == reply.op = "none" /\ reply'.op \in ReadOps

\* C25: list-upcoming-classes, get-class-by-id, get-bookings-by-email and
\* health-check leave the stored classes and bookings unchanged whether they
\* succeed or fail, so booking requests interleaved with reads go through
\* the same stores, to the same final store, as the booking requests alone
C25_ReadsLeaveStoreUnchanged ==
    /\ [][AnswersRead =>
            /\ classes' = classes
            /\ bookings' = bookings
            /\ booking_vars' = booking_vars]_vars
    /\ [][reply' # reply => booking_vars' = booking_vars]_vars
    /\ [][NextSeq]_booking_vars

\* a read that failed, get-class-by-id with 404, served after a booking was
\* stored
C25_Witness ==
    /\ reply.op = "get_class_details"
    /\ reply.status = 404
    /\ \E r \in Reqs : Created(r)
    /\ bookings # {}

\* the classes list-upcoming-classes returns at this instant when no window
\* cuts the list
ListedNow ==
    {page[i].id : <<page, i>> \in
        {<<p, k>> \in get_upcoming_classes(0, PageLimitMax) \X DOMAIN classes :
            k \in DOMAIN p}}

\* C26: the listing filter and the time gate of create-booking agree at
\* every instant: a request passes the gate at an instant exactly when the
\* listing taken at that instant returns its class
C26_GateAgreesWithListing ==
    [][\A r \in Reqs :
        (pc[r] = "check_upcoming" /\ pc'[r] # "check_upcoming") =>
            (pc'[r] = "check_slots" <=> booking_data[r].class_id \in ListedNow)]_vars

====
